---------------------------- MODULE Spec2Model ----------------------------
(***************************************************************************)
(* A model of src/src/server.py: the OpenAI-compatible bridge in front of  *)
(* the Claude CLI.  The state machines below share one set of variables:   *)
(*   SpecStream   stream_chat_completion, one streaming request            *)
(*   SpecWebhook  handle_github_webhook, one webhook request               *)
(*   SpecVerify   verify_github_signature as a pure function               *)
(*   SpecChat     create_chat_completion, one POST /v1/chat/completions    *)
(*   SpecTrigger  should_respond as a pure function                        *)
(*   SpecServer   one request of any kind, /github/analyze included        *)
(*   SpecStreamLive   SpecStream under the event loop's scheduling         *)
(*   SpecStreamLong   the generator with outputs of several reads           *)
(*   SpecConcurrent   two requests in flight together                       *)
(* Text is a sequence of one-character strings; bytes and decoded          *)
(* characters of the subprocess output are numbers (byte values, code      *)
(* points).                                                                 *)
(***************************************************************************)
EXTENDS Integers, Sequences, FiniteSets, TLC

VARIABLES
    \* ---- stream_chat_completion
    messages,      \* request.messages
    spc,           \* position of the generator
    cmd,           \* argument vector handed to create_subprocess_exec
    output,        \* every byte the subprocess writes to stdout
    unread,        \* the bytes written to stdout and not yet returned by read(64)
    buffer,        \* local variable buffer
    frames,        \* the frames yielded so far, in order
    spawned,       \* number of subprocesses created for the request
    raised,        \* where an exception was raised in the generator, or "none"
    returncode,    \* process.returncode of the streaming subprocess
    stderr,        \* the subprocess's stderr pipe, which the generator never reads
    \* ---- handle_github_webhook
    config,        \* the CONFIG entries the handler reads
    request,       \* body and headers of the webhook request
    wpc,           \* position of the handler
    context,       \* the GitHubActionContext of process_webhook
    response,      \* the JSONResponse returned
    effects,       \* what the handler has done: parse, diff requests, backend runs
    \* ---- verify_github_signature
    vin,           \* arguments of the call
    vout,          \* its outcome
    \* ---- create_chat_completion, non_streaming_chat_completion
    chatBody,      \* request_body
    cpc,           \* position of the handler
    chatPrompt,    \* what process_messages computed
    chatCmd,       \* argument vector handed to create_subprocess_exec
    chatProcess,   \* the subprocess of execute_claude_request
    chatReply,     \* the HTTP response
    \* ---- GitHubActionAdapter
    triggers,      \* github_adapter.trigger_phrases
    \* ---- should_respond called on its own
    tcontent,      \* argument of the call
    tresult,       \* its outcome
    \* ---- several requests in flight on the one event loop
    globals,       \* module-level state: CONFIG, bridge_adapter._session_cache
    inflight,      \* the local variables of each request's coroutine
    procs          \* the subprocesses created so far, in the order of creation

streamVars ==
    <<messages, spc, cmd, output, unread, buffer, frames, spawned, raised, returncode,
      stderr>>
webhookVars == <<config, request, wpc, context, response, effects>>
verifyVars == <<vin, vout>>
chatVars == <<chatBody, cpc, chatPrompt, chatCmd, chatProcess, chatReply>>
adapterVars == <<triggers>>
triggerVars == <<tcontent, tresult>>
concurrentVars == <<globals, inflight, procs>>
vars == <<messages, spc, cmd, output, unread, buffer, frames, spawned, raised,
          returncode, stderr, config, request, wpc, context, response, effects, vin, vout,
          chatBody, cpc, chatPrompt, chatCmd, chatProcess, chatReply,
          triggers, tcontent, tresult, globals, inflight, procs>>

\* the variables a machine leaves alone
exceptStream == <<webhookVars, verifyVars, chatVars, adapterVars, triggerVars,
    concurrentVars>>
exceptWebhook == <<streamVars, verifyVars, chatVars, adapterVars, triggerVars,
    concurrentVars>>
exceptVerify == <<streamVars, webhookVars, chatVars, adapterVars, triggerVars,
    concurrentVars>>
exceptChat == <<webhookVars, verifyVars, adapterVars, triggerVars,
    concurrentVars>>
exceptConcurrent ==
    <<streamVars, webhookVars, verifyVars, chatVars, adapterVars, triggerVars>>
exceptTrigger == <<streamVars, webhookVars, verifyVars, chatVars, adapterVars,
    concurrentVars>>

-----------------------------------------------------------------------------
(* Text helpers *)

Min(a, b) == IF a <= b THEN a ELSE b

\* the value of a variable that holds nothing yet
NoValue == [kind |-> "none"]

\* an optional integer
Some(v) == [some |-> TRUE, v |-> v]
NoneInt == [some |-> FALSE, v |-> 0]

RECURSIVE Join(_, _)
\* sep.join(parts) for a sequence of texts
Join(parts, sep) ==
    IF parts = <<>> THEN <<>>
    ELSE IF Len(parts) = 1 THEN parts[1]
    ELSE parts[1] \o sep \o Join(Tail(parts), sep)

UpperLetters ==
    <<"A","B","C","D","E","F","G","H","I","J","K","L","M",
      "N","O","P","Q","R","S","T","U","V","W","X","Y","Z">>
LowerLetters ==
    <<"a","b","c","d","e","f","g","h","i","j","k","l","m",
      "n","o","p","q","r","s","t","u","v","w","x","y","z">>

\* str.lower() on one character
LowerChar(c) ==
    IF \E i \in 1..Len(UpperLetters) : UpperLetters[i] = c
    THEN LowerLetters[CHOOSE i \in 1..Len(UpperLetters) : UpperLetters[i] = c]
    ELSE c

\* str.lower()
Lower(s) == [i \in 1..Len(s) |-> LowerChar(s[i])]

\* the Python test  sub in s
Contains(s, sub) ==
    \E i \in 0..(Len(s) - Len(sub)) :
        \A j \in 1..Len(sub) : s[i + j] = sub[j]

-----------------------------------------------------------------------------
(* ChatMessage and the message normalizer *)

TxtStr(s) == [tag |-> "str", s |-> s]
TxtNone == [tag |-> "none", s |-> <<>>]      \* "text": null
TxtAbsent == [tag |-> "absent", s |-> <<>>]  \* no "text" key

\* one element of a list content: a dict as parsed from JSON, or a ContentPart
Part(form, type, text) == [form |-> form, type |-> type, text |-> text]
StrContent(s) == [kind |-> "str", text |-> s, parts |-> <<>>]
ListContent(ps) == [kind |-> "list", text |-> <<>>, parts |-> ps]
Message(role, content) == [role |-> role, content |-> content]

\* what one part appends to text_parts: nothing, a text, or None
PartAppends(part) ==
    IF part.type # "text" THEN [appends |-> FALSE, isNone |-> FALSE, s |-> <<>>]
    ELSE IF part.form = "dict"
    THEN \* part.get("text", ""): the default only when the key is missing
         [appends |-> TRUE, isNone |-> part.text.tag = "none", s |-> part.text.s]
    ELSE \* getattr(part, 'text', '') or ""
         [appends |-> TRUE, isNone |-> FALSE, s |-> part.text.s]

RECURSIVE TextParts(_)
TextParts(parts) ==
    IF parts = <<>> THEN <<>>
    ELSE LET a == PartAppends(Head(parts))
         IN  (IF a.appends THEN <<a>> ELSE <<>>) \o TextParts(Tail(parts))

\* ChatMessage.content_text; ok = FALSE when " ".join raises TypeError on a None
content_text(msg) ==
    IF msg.content.kind = "str" THEN [ok |-> TRUE, text |-> msg.content.text]
    ELSE LET tp == TextParts(msg.content.parts)
         IN  IF \E i \in 1..Len(tp) : tp[i].isNone
             THEN [ok |-> FALSE, text |-> <<>>]
             ELSE [ok |-> TRUE,
                   text |-> Join([i \in 1..Len(tp) |-> tp[i].s], <<" ">>)]

RoleLabel(role) ==
    CASE role = "system" -> <<"S","y","s","t","e","m",":"," ">>
      [] role = "user" -> <<"U","s","e","r",":"," ">>
      [] role = "assistant" -> <<"A","s","s","i","s","t","a","n","t",":"," ">>
      [] OTHER -> <<>>

RECURSIVE PromptParts(_)
PromptParts(msgs) ==
    IF msgs = <<>> THEN <<>>
    ELSE LET m == Head(msgs)
         IN  (IF m.role \in {"system", "user", "assistant"}
              THEN <<RoleLabel(m.role) \o content_text(m).text>>
              ELSE <<>>) \o PromptParts(Tail(msgs))

\* ClaudeBridgeAdapter.process_messages; content_text is read for every message
process_messages(msgs) ==
    IF \E i \in 1..Len(msgs) : ~content_text(msgs[i]).ok
    THEN [ok |-> FALSE, text |-> <<>>]
    ELSE [ok |-> TRUE, text |-> Join(PromptParts(msgs), <<"\n", "\n">>)]

\* a variant that takes the first system message that has a text
SystemArgs_first_with_text(msgs) ==
    LET idx == {i \in 1..Len(msgs) :
                   msgs[i].role = "system" /\ content_text(msgs[i]).text # <<>>}
    IN  IF idx = {} THEN <<>>
        ELSE LET first == CHOOSE i \in idx : \A j \in idx : i <= j
             IN  <<<<"--system-prompt">>, content_text(msgs[first]).text>>

\* the --system-prompt arguments: the first system message, if its text is not empty
SystemArgs(msgs) ==
    LET idx == {i \in 1..Len(msgs) : msgs[i].role = "system"}
    IN  IF idx = {} THEN <<>>
        ELSE LET first == CHOOSE i \in idx : \A j \in idx : i <= j
                 t == content_text(msgs[first]).text
             IN  IF t # <<>> THEN <<<<"--system-prompt">>, t>> ELSE <<>>

\* CONFIG["claude_cli_path"], a non-empty text
ClaudeCliPath == <<"c","l","a","u","d","e">>

-----------------------------------------------------------------------------
(* The streaming transducer: stream_chat_completion *)

ReadSize_doubled == 2 * 64
ReadSize == 64         \* process.stdout.read(64)
FlushThreshold == 10   \* if len(buffer) > 10
MaxOutLen == 12        \* longest subprocess output of the model, in bytes
MaxNonAscii == 2       \* most bytes >= 128 in one output

ReplacementChar == 65533
AsciiBytes == {97}
NonAsciiBytes == {195, 169}   \* 0xC3 0xA9 is the UTF-8 encoding of U+00E9

IsContinuation(b) == b >= 128 /\ b <= 191
IsLead2(b) == b >= 194 /\ b <= 223

RECURSIVE Decode(_)
\* bytes.decode('utf-8', errors='replace') on byte values below 224: a lead byte
\* of a two-byte sequence followed by a continuation byte is one character; any
\* other byte >= 128 is replaced by U+FFFD
Decode(bs) ==
    IF bs = <<>> THEN <<>>
    ELSE LET b == Head(bs)
         IN  IF b < 128 THEN <<b>> \o Decode(Tail(bs))
             ELSE IF IsLead2(b) /\ Len(bs) >= 2 /\ IsContinuation(bs[2])
             THEN <<(b - 192) * 64 + (bs[2] - 128)>> \o Decode(Tail(Tail(bs)))
             ELSE <<ReplacementChar>> \o Decode(Tail(bs))

\* the outputs a subprocess of the model may write
Outputs ==
    UNION { UNION { { [i \in 1..n |-> IF i \in P THEN f[i] ELSE g[i]] :
                      f \in [P -> NonAsciiBytes], g \in [(1..n) \ P -> AsciiBytes] } :
                    P \in {Q \in SUBSET (1..n) : Cardinality(Q) <= MaxNonAscii} } :
            n \in 0..MaxOutLen }

MaxLongOutLen == 76    \* longest output of the long-output runs, in bytes

\* outputs longer than one read and the threshold together, and short ones
LongOutputs ==
    {[i \in 1..n |-> 97] : n \in {0, 1, FlushThreshold, MaxLongOutLen - 1, MaxLongOutLen}}

\* outputs of ASCII bytes only
AsciiOutputs == {[i \in 1..n |-> 97] : n \in 0..MaxOutLen}

\* the outputs of a subprocess started for a request that came in through
\* create_chat_completion are ASCII: decoding is examined on the generator alone
StreamOutputs == IF cpc = "streaming" THEN AsciiOutputs ELSE Outputs

\* the exit codes of the model's subprocesses: success and one failure
ExitCodes == {0, 1}

ContentChunk(text, finish) ==
    [kind |-> "chunk", hasContent |-> TRUE, content |-> text, finish |-> finish]
\* "delta": {}, "finish_reason": "stop"
TerminalChunk ==
    [kind |-> "chunk", hasContent |-> FALSE, content |-> <<>>, finish |-> "stop"]
\* data: [DONE]
DoneFrame ==
    [kind |-> "done", hasContent |-> FALSE, content |-> <<>>, finish |-> "null"]

\* f"Ошибка: {str(e)}" as code points; str(e) is left out
ErrorText == <<1054, 1096, 1080, 1073, 1082, 1072, 58, 32>>

\* the except branch: the error chunk, then the sentinel
ErrorFrames == <<ContentChunk(ErrorText, "stop"), DoneFrame>>

\* the message lists of the model's streaming requests
StreamMessages ==
    { <<Message("user", StrContent(<<"h","i">>))>>,
      <<Message("system", StrContent(<<"s">>)),
        Message("user", ListContent(<<Part("dict", "text", TxtStr(<<"a">>)),
                                      Part("dict", "image_url", TxtAbsent)>>))>>,
      <<Message("user", ListContent(<<Part("dict", "text", TxtNone)>>))>> }

\* lines 1266-1270: the prompt is built before the try block is entered
BuildPrompt ==
    /\ spc = "start"
    /\ spc' = IF process_messages(messages).ok THEN "spawn" ELSE "aborted"
    /\ raised' = IF process_messages(messages).ok THEN "none" ELSE "prompt"
    /\ UNCHANGED <<messages, cmd, output, unread, buffer, frames, spawned, returncode,
                 stderr>>
    /\ UNCHANGED exceptStream

\* lines 1274-1292: the command is built and the subprocess created
SpawnOk ==
    /\ spc = "spawn"
    /\ cmd' = <<ClaudeCliPath, process_messages(messages).text>>
                  \o SystemArgs(messages)
    /\ \E out \in StreamOutputs : output' = out /\ unread' = out
    /\ buffer' = <<>>
    /\ spawned' = spawned + 1
    /\ spc' = "read"
    /\ stderr' = "open"
    /\ UNCHANGED <<messages, frames, raised, returncode>>
    /\ UNCHANGED exceptStream

\* lines 1274-1292 for a subprocess with a long output
SpawnOkLong ==
    /\ spc = "spawn"
    /\ cmd' = <<ClaudeCliPath, process_messages(messages).text>>
                  \o SystemArgs(messages)
    /\ \E out \in LongOutputs : output' = out /\ unread' = out
    /\ buffer' = <<>>
    /\ spawned' = spawned + 1
    /\ spc' = "read"
    /\ stderr' = "open"
    /\ UNCHANGED <<messages, frames, raised, returncode>>
    /\ UNCHANGED exceptStream

\* lines 1284-1288: stderr is a pipe too, and nothing in the generator reads it.
\* The subprocess writes more to stderr than the pipe and the event loop's
\* reader take, and blocks in that write after k bytes of stdout: no more
\* bytes arrive on stdout, and stdout is not closed.
SpawnOkStderrFull ==
    /\ spc = "spawn"
    /\ cmd' = <<ClaudeCliPath, process_messages(messages).text>>
                  \o SystemArgs(messages)
    /\ \E out \in AsciiOutputs : \E k \in 0..Len(out) :
          output' = out /\ unread' = SubSeq(out, 1, k)
    /\ buffer' = <<>>
    /\ spawned' = spawned + 1
    /\ spc' = "read"
    /\ stderr' = "full"
    /\ UNCHANGED <<messages, frames, raised, returncode>>
    /\ UNCHANGED exceptStream

\* create_subprocess_exec raises (no such file, permission, ...)
SpawnRaises ==
    /\ spc = "spawn"
    /\ cmd' = <<ClaudeCliPath, process_messages(messages).text>>
                  \o SystemArgs(messages)
    /\ frames' = frames \o ErrorFrames
    /\ spc' = "finished"
    /\ raised' = "spawn"
    /\ UNCHANGED <<messages, output, unread, buffer, spawned, returncode, stderr>>
    /\ UNCHANGED exceptStream

\* The numbers of bytes one read(64) may return when avail bytes are there:
\* any number up to 64 for the short outputs; for the long outputs the sizes
\* around the threshold and around the limit of a read, and all there is.
ReadSizes(avail) ==
    IF Len(output) <= MaxOutLen
    THEN 1..Min(ReadSize, avail)
    ELSE ({FlushThreshold, FlushThreshold + 1} \cap (1..Min(ReadSize, avail)))
         \cup {Min(ReadSize, avail)}

\* a variant of the read that flushes a buffer of exactly ten characters too
ReadChunk_flush_at_ten ==
    /\ spc = "read"
    /\ unread # <<>>
    /\ \E n \in ReadSizes(Len(unread)) :
          LET buf == buffer \o Decode(SubSeq(unread, 1, n))
          IN  /\ unread' = SubSeq(unread, n + 1, Len(unread))
              /\ IF Len(buf) >= FlushThreshold
                 THEN /\ frames' = Append(frames, ContentChunk(buf, "null"))
                      /\ buffer' = <<>>
                 ELSE /\ frames' = frames
                      /\ buffer' = buf
    /\ UNCHANGED <<messages, spc, cmd, output, spawned, raised, returncode, stderr>>
    /\ UNCHANGED exceptStream

\* lines 1296-1320: one read of at most 64 bytes, decoded, appended, maybe flushed
ReadChunk ==
    /\ spc = "read"
    /\ unread # <<>>
    /\ \E n \in ReadSizes(Len(unread)) :
          LET chunk == SubSeq(unread, 1, n)
              text == Decode(chunk)
              buf == buffer \o text
          IN  /\ unread' = SubSeq(unread, n + 1, Len(unread))
              /\ IF Len(buf) > FlushThreshold
                 THEN /\ frames' = Append(frames, ContentChunk(buf, "null"))
                      /\ buffer' = <<>>
                 ELSE /\ frames' = frames
                      /\ buffer' = buf
    /\ UNCHANGED <<messages, spc, cmd, output, spawned, raised, returncode, stderr>>
    /\ UNCHANGED exceptStream

\* the frames handed over after the loop: lines 1322-1351
FinalFrames ==
    (IF buffer # <<>> THEN <<ContentChunk(buffer, "null")>> ELSE <<>>)
        \o <<TerminalChunk, DoneFrame>>

\* lines 1297-1351: read returns b"", the loop ends; final flush, terminal
\* chunk and sentinel
EndOfStream ==
    /\ spc = "read"
    /\ unread = <<>>
    /\ stderr = "open"
    /\ frames' = frames \o FinalFrames
    /\ spc' = "wait"
    /\ UNCHANGED <<messages, cmd, output, unread, buffer, spawned, raised, returncode,
                 stderr>>
    /\ UNCHANGED exceptStream

\* the read raises (the pipe's transport reports an error)
ReadRaises ==
    /\ spc = "read"
    /\ frames' = frames \o ErrorFrames
    /\ spc' = "finished"
    /\ raised' = "read"
    /\ UNCHANGED <<messages, cmd, output, unread, buffer, spawned, returncode,
                 stderr>>
    /\ UNCHANGED exceptStream

\* a variant in which the except branch takes the disconnect for an error
ClientDisconnects_caught ==
    /\ spc \in {"read", "wait"}
    /\ frames' = frames \o ErrorFrames
    /\ spc' = "finished"
    /\ raised' = "cancelled"
    /\ UNCHANGED <<messages, cmd, output, unread, buffer, spawned, returncode, stderr>>
    /\ UNCHANGED exceptStream

\* The consumer goes away while the generator awaits read(64) or
\* process.wait(), or at the yield of a chunk of the loop: CancelledError or
\* GeneratorExit is raised at that await or yield.  Neither is an Exception,
\* so the except branch of line 1355 is not entered and the generator ends.
ClientDisconnects ==
    /\ spc \in {"read", "wait"}
    /\ spc' = "cancelled"
    /\ raised' = "cancelled"
    /\ UNCHANGED <<messages, cmd, output, unread, buffer, frames, spawned, returncode,
                 stderr>>
    /\ UNCHANGED exceptStream

\* the consumer goes away at one of the yields that follow the loop
EndOfStreamDisconnected ==
    /\ spc = "read"
    /\ unread = <<>>
    /\ stderr = "open"
    /\ \E k \in 1..Len(FinalFrames) : frames' = frames \o SubSeq(FinalFrames, 1, k)
    /\ spc' = "cancelled"
    /\ raised' = "cancelled"
    /\ UNCHANGED <<messages, cmd, output, unread, buffer, spawned, returncode, stderr>>
    /\ UNCHANGED exceptStream

\* line 1353: await process.wait()
ProcessWait ==
    /\ spc = "wait"
    /\ \E code \in ExitCodes : returncode' = Some(code)
    /\ spc' = "finished"
    /\ UNCHANGED <<messages, cmd, output, unread, buffer, frames, spawned, raised,
                 stderr>>
    /\ UNCHANGED exceptStream

-----------------------------------------------------------------------------
(* POST /v1/chat/completions: create_chat_completion *)

\* a field of the JSON body: missing, null, a number, or a text that is no
\* number; max_tokens is kept as an integer, temperature and top_p in tenths
\* (0.7 is 7)
FieldAbsent == [tag |-> "absent", v |-> 0]
FieldNull == [tag |-> "null", v |-> 0]
FieldNum(v) == [tag |-> "num", v |-> v]
FieldText == [tag |-> "text", v |-> 0]

MessagesAbsent == [present |-> FALSE, list |-> <<>>]
MessagesList(msgs) == [present |-> TRUE, list |-> msgs]

ChatBody(msgs, max_tokens, temperature, top_p, stream) ==
    [messages |-> msgs, max_tokens |-> max_tokens, temperature |-> temperature,
     top_p |-> top_p, stream |-> stream]

\* Field(ge=lo, le=hi) on an Optional[float]
InRange(field, lo, hi) ==
    field.tag \in {"absent", "null"} \/ (field.tag = "num" /\ lo <= field.v /\ field.v <= hi)

\* the fields for which ChatCompletionRequest(**request_body) reports an error
ValidationErrors(body) ==
    (IF body.messages.present THEN {} ELSE {"messages"})
    \cup (IF body.max_tokens.tag = "text" THEN {"max_tokens"} ELSE {})
    \cup (IF InRange(body.temperature, 0, 20) THEN {} ELSE {"temperature"})
    \cup (IF InRange(body.top_p, 0, 10) THEN {} ELSE {"top_p"})

\* the request object of a body without validation errors
ChatCompletionRequest(body) ==
    [messages |-> body.messages.list,
     max_tokens |-> IF body.max_tokens.tag = "absent" THEN Some(8192)
                    ELSE IF body.max_tokens.tag = "null" THEN NoneInt
                    ELSE Some(body.max_tokens.v),
     stream |-> body.stream]

IsSpace(c) == c \in {" ", "\n", "\t"}

\* len(text.split())
WordCount(text) ==
    Cardinality({i \in 1..Len(text) :
                    ~IsSpace(text[i]) /\ (i = 1 \/ IsSpace(text[i - 1]))})

\* str.strip()
Strip(text) ==
    LET keep == {i \in 1..Len(text) : ~IsSpace(text[i])}
    IN  IF keep = {} THEN <<>>
        ELSE SubSeq(text, CHOOSE i \in keep : \A j \in keep : i <= j,
                          CHOOSE i \in keep : \A j \in keep : j <= i)

\* len(text.split()) * 1.3, a float kept in tenths
TokenEstimate(text) == 13 * WordCount(text)

\* a mutant: the estimate is rounded to the nearest integer
IntOf_rounded(tenths) == (tenths + 5) \div 10

\* int() on a float that is not negative, kept in tenths: the fraction is cut
IntOf(tenths) == tenths \div 10

Usage(prompt, response_text) ==
    [prompt_tokens |-> IntOf(TokenEstimate(prompt)),
     completion_tokens |-> IntOf(TokenEstimate(response_text)),
     total_tokens |-> IntOf(TokenEstimate(prompt) + TokenEstimate(response_text))]
NoUsage == [prompt_tokens |-> 0, completion_tokens |-> 0, total_tokens |-> 0]

\* the detail of an HTTPException: a text, or the object of the 422 answer
TextDetail == [kind |-> "text", error |-> "", details |-> {}, received |-> NoValue]
ValidationDetail(errors, body) ==
    [kind |-> "object", error |-> "Validation failed", details |-> errors,
     received |-> body]
NoDetail == [kind |-> "none", error |-> "", details |-> {}, received |-> NoValue]

ChatReply(status, kind, content, finish, usage, detail) ==
    [status |-> status, kind |-> kind, content |-> content, finish |-> finish,
     usage |-> usage, detail |-> detail]
\* raise HTTPException(status_code=..., detail=...)
HTTPException(status, detail) == ChatReply(status, "error", <<>>, "null", NoUsage, detail)
\* StreamingResponse(stream_chat_completion(request), ...): status 200, the
\* body is what the generator yields
StreamingResponse == ChatReply(200, "stream", <<>>, "null", NoUsage, NoDetail)
\* ChatCompletionResponse with one choice
ChatCompletionResponse(response_text, usage) ==
    ChatReply(200, "completion", response_text, "stop", usage, NoDetail)

\* what process_messages leaves behind: the content_text of every message,
\* prompt_parts and the prompt
PromptOf(msgs) ==
    [ok |-> process_messages(msgs).ok,
     flat |-> [i \in 1..Len(msgs) |-> content_text(msgs[i])],
     parts |-> IF process_messages(msgs).ok THEN PromptParts(msgs) ELSE <<>>,
     text |-> process_messages(msgs).text]

\* the argument vector of execute_claude_request, empty strings removed
ExecCmd(prompt, msgs) ==
    SelectSeq(<<ClaudeCliPath, <<"-p">>, prompt>> \o SystemArgs(msgs),
              LAMBDA arg : arg # <<>>)

NoProcess == [calls |-> 0, spawned |-> 0, returncode |-> NoneInt,
              stdout |-> <<>>, utf8 |-> TRUE]

MaxStdoutLen == 4      \* longest stdout of the model's non-streaming subprocess

\* what a subprocess may write to stdout: words of the letter w and white space
ChatStdouts ==
    UNION { [1..n -> {"w", " ", "\n"}] : n \in 0..MaxStdoutLen }

\* lines 1191-1208 and 1228-1229: validation, then the streaming response is
\* returned or the prompt of the non-streaming completion is built
ReceiveChat ==
    /\ cpc = "received"
    /\ LET errors == ValidationErrors(chatBody)
           req == ChatCompletionRequest(chatBody)
       IN  IF errors # {}
           THEN /\ chatReply' = HTTPException(422, ValidationDetail(errors, chatBody))
                /\ cpc' = "done"
                /\ UNCHANGED <<chatPrompt, messages, spc>>
           ELSE IF req.stream
           THEN /\ chatReply' = StreamingResponse
                /\ cpc' = "streaming"
                /\ messages' = req.messages
                /\ spc' = "start"
                /\ UNCHANGED chatPrompt
           ELSE /\ chatPrompt' = PromptOf(req.messages)
                /\ IF process_messages(req.messages).ok
                   THEN cpc' = "execute" /\ chatReply' = chatReply
                   ELSE \* TypeError, caught at line 1220
                        cpc' = "done" /\ chatReply' = HTTPException(500, TextDetail)
                /\ UNCHANGED <<messages, spc>>
    /\ UNCHANGED <<chatBody, chatCmd, chatProcess>>
    /\ UNCHANGED <<cmd, output, unread, buffer, frames, spawned, raised, returncode,
                 stderr>>
    /\ UNCHANGED exceptChat

\* lines 280-305: the command is built, the subprocess created and run to its end
ExecuteSpawn ==
    /\ cpc = "execute"
    /\ chatCmd' = ExecCmd(chatPrompt.text, ChatCompletionRequest(chatBody).messages)
    /\ \E code \in ExitCodes : \E out \in ChatStdouts : \E decodable \in BOOLEAN :
          chatProcess' = [calls |-> chatProcess.calls + 1,
                          spawned |-> chatProcess.spawned + 1,
                          returncode |-> Some(code), stdout |-> out,
                          utf8 |-> decodable]
    /\ cpc' = "communicate"
    /\ UNCHANGED <<chatBody, chatPrompt, chatReply>>
    /\ UNCHANGED <<streamVars, exceptChat>>

\* create_subprocess_exec raises; lines 331-333 and 1220-1223 answer 500
ExecuteSpawnRaises ==
    /\ cpc = "execute"
    /\ chatCmd' = ExecCmd(chatPrompt.text, ChatCompletionRequest(chatBody).messages)
    /\ chatProcess' = [chatProcess EXCEPT !.calls = @ + 1]
    /\ chatReply' = HTTPException(500, TextDetail)
    /\ cpc' = "done"
    /\ UNCHANGED <<chatBody, chatPrompt>>
    /\ UNCHANGED <<streamVars, exceptChat>>

\* a mutant: a subprocess that failed is started again
Communicate_retry ==
    /\ cpc = "communicate"
    /\ IF chatProcess.returncode # Some(0)
       THEN cpc' = "execute" /\ chatReply' = chatReply
       ELSE /\ cpc' = "done"
            /\ chatReply' = ChatCompletionResponse(
                                Strip(chatProcess.stdout),
                                Usage(chatPrompt.text, Strip(chatProcess.stdout)))
    /\ UNCHANGED <<chatBody, chatPrompt, chatCmd, chatProcess>>
    /\ UNCHANGED <<streamVars, exceptChat>>

\* lines 307-329 and 1231-1261: the exit code is tested, stdout decoded and
\* stripped, the usage estimated and the completion returned
Communicate ==
    /\ cpc = "communicate"
    /\ chatReply' =
          IF chatProcess.returncode # Some(0) \/ ~chatProcess.utf8
          THEN HTTPException(500, TextDetail)
          ELSE ChatCompletionResponse(
                   Strip(chatProcess.stdout),
                   Usage(chatPrompt.text, Strip(chatProcess.stdout)))
    /\ cpc' = "done"
    /\ UNCHANGED <<chatBody, chatPrompt, chatCmd, chatProcess>>
    /\ UNCHANGED <<streamVars, exceptChat>>

-----------------------------------------------------------------------------
(* GitHub webhook: signature verification *)

\* hmac.new(secret, body, sha256).hexdigest(): a text of ASCII hex digits that
\* identifies the pair (secret, body); distinct pairs give distinct digests
HexDigest(secret, body) ==
    [key |-> secret, msg |-> body, variant |-> "exact", ascii |-> TRUE]

\* texts that differ from a digest d
UpperCased(d) == [d EXCEPT !.variant = "upper"]          \* hex digits in upper case
DigitFlipped(d) == [d EXCEPT !.variant = "flipped"]      \* one hex digit changed
Truncated(d) == [d EXCEPT !.variant = "truncated"]       \* the last digit dropped
NonAsciiDigit(d) == [d EXCEPT !.variant = "nonascii", !.ascii = FALSE]
                                                         \* one digit replaced by U+00E9
NoDigest == [key |-> "", msg |-> NoValue, variant |-> "nonhex", ascii |-> TRUE]
EmptyText == [key |-> "", msg |-> NoValue, variant |-> "empty", ascii |-> TRUE]

\* the X-Hub-Signature-256 header: absent (None), or a text split at the place
\* where the prefix sha256= would end
HeaderAbsent == [present |-> FALSE, prefixed |-> FALSE, rest |-> EmptyText]
HeaderText(prefixed, rest) == [present |-> TRUE, prefixed |-> prefixed, rest |-> rest]
HeaderEmpty == HeaderText(FALSE, EmptyText)

\* x_hub_signature_256 or ""
OrEmpty(header) == IF header.present THEN header ELSE HeaderEmpty

\* hmac.compare_digest on two str: TypeError unless both are ASCII
compare_digest(a, b) ==
    IF ~a.ascii \/ ~b.ascii THEN "TypeError"
    ELSE IF a = b THEN "true" ELSE "false"

\* a mutant: the prefix is not required
verify_github_signature_noprefix(body, header, secret) ==
    IF ~header.present \/ header = HeaderEmpty THEN "false"
    ELSE compare_digest(header.rest, HexDigest(secret, body))

\* verify_github_signature: "true", "false", or the exception that leaves it
verify_github_signature(body, header, secret) ==
    IF ~header.present \/ header = HeaderEmpty THEN "false"
    ELSE IF ~header.prefixed THEN "false"
    ELSE compare_digest(header.rest, HexDigest(secret, body))

-----------------------------------------------------------------------------
(* GitHub webhook: payloads, classification, trigger gate *)

NoComment == [present |-> FALSE, id |-> 0, body |-> <<>>]
Comment(id, body) == [present |-> TRUE, id |-> id, body |-> body]
NoPullRequest == [present |-> FALSE, number |-> 0, title |-> <<>>, body |-> TxtNone]
PullRequest(number, title, body) ==
    [present |-> TRUE, number |-> number, title |-> title, body |-> body]
NoIssue == [present |-> FALSE, number |-> 0, title |-> <<>>, body |-> TxtNone]
Issue(number, title, body) ==
    [present |-> TRUE, number |-> number, title |-> title, body |-> body]

\* the list __init__ stores in self.trigger_phrases
trigger_phrases ==
    { <<"@","c","l","a","u","d","e">>, <<"@","a","i">>,
      <<"/","r","e","v","i","e","w">>, <<"/","a","n","a","l","y","z","e">>,
      <<"/","h","e","l","p">>, <<"/","f","i","x">> }

\* a mutant: the content is not lower-cased
should_respond_case_sensitive(content) ==
    \E phrase \in triggers : Contains(content, phrase)

\* GitHubActionAdapter.should_respond
should_respond(content) ==
    \E phrase \in triggers : Contains(Lower(content), phrase)

max_diff_size == 10000

NoDiff == [kind |-> "none", pr |-> 0, len |-> 0, truncated |-> FALSE, code |-> 0]

\* a mutant: a body of exactly max_diff_size characters is cut as well
fetch_pr_diff_cut_at_limit(pr, outcome) ==
    IF outcome.kind = "response"
    THEN IF outcome.code = 200
         THEN [kind |-> "diff", pr |-> pr.number,
               len |-> Min(outcome.len, max_diff_size),
               truncated |-> outcome.len >= max_diff_size, code |-> 200]
         ELSE [kind |-> "status_placeholder", pr |-> pr.number, len |-> 0,
               truncated |-> FALSE, code |-> outcome.code]
    ELSE [kind |-> "error_placeholder", pr |-> pr.number, len |-> 0,
          truncated |-> FALSE, code |-> 0]

\* a mutant: an exception of the GET leaves no text behind
fetch_pr_diff_none(pr, outcome) ==
    IF outcome.kind = "response"
    THEN IF outcome.code = 200
         THEN [kind |-> "diff", pr |-> pr.number,
               len |-> Min(outcome.len, max_diff_size),
               truncated |-> outcome.len > max_diff_size, code |-> 200]
         ELSE [kind |-> "status_placeholder", pr |-> pr.number, len |-> 0,
               truncated |-> FALSE, code |-> outcome.code]
    ELSE NoDiff

\* GitHubActionAdapter._fetch_pr_diff: the text it returns for each outcome of
\* the GET; a diff body is kept as its length
fetch_pr_diff(pr, outcome) ==
    IF outcome.kind = "response"
    THEN IF outcome.code = 200
         THEN [kind |-> "diff", pr |-> pr.number,
               len |-> Min(outcome.len, max_diff_size),
               truncated |-> outcome.len > max_diff_size, code |-> 200]
         ELSE [kind |-> "status_placeholder", pr |-> pr.number, len |-> 0,
               truncated |-> FALSE, code |-> outcome.code]
    ELSE [kind |-> "error_placeholder", pr |-> pr.number, len |-> 0,
          truncated |-> FALSE, code |-> 0]

\* body or ''
OrEmptyText(t) == IF t.tag = "str" THEN t.s ELSE <<>>

\* a mutant: the pull_request branch is tested before the comment branch
process_webhook_pr_first(payload, diff) ==
    LET c0 == [event_type |-> "unknown", action |-> payload.action,
               repository |-> payload.repository, sender |-> payload.sender,
               content |-> <<>>, pr_number |-> NoneInt, issue_number |-> NoneInt,
               comment_id |-> NoneInt, diff_content |-> NoDiff]
    IN  IF payload.pull_request.present
        THEN [c0 EXCEPT !.content = <<"P","R",":"," ">> \o payload.pull_request.title
                                     \o <<"\n","\n">>
                                     \o OrEmptyText(payload.pull_request.body),
                        !.pr_number = Some(payload.pull_request.number),
                        !.event_type = "pull_request",
                        !.diff_content = diff]
        ELSE IF payload.comment.present
        THEN [c0 EXCEPT !.content = payload.comment.body,
                        !.comment_id = Some(payload.comment.id),
                        !.event_type = "issue_comment"]
        ELSE IF payload.issue.present
        THEN [c0 EXCEPT !.content = <<"I","s","s","u","e",":"," ">>
                                     \o payload.issue.title \o <<"\n","\n">>
                                     \o OrEmptyText(payload.issue.body),
                        !.issue_number = Some(payload.issue.number),
                        !.event_type = "issues"]
        ELSE c0

\* GitHubActionAdapter.process_webhook; diff is what _fetch_pr_diff returned
\* (NoDiff when it is not called)
process_webhook(payload, diff) ==
    LET c0 == [event_type |-> "unknown", action |-> payload.action,
               repository |-> payload.repository, sender |-> payload.sender,
               content |-> <<>>, pr_number |-> NoneInt, issue_number |-> NoneInt,
               comment_id |-> NoneInt, diff_content |-> NoDiff]
    IN  IF payload.comment.present
        THEN LET c1 == [c0 EXCEPT !.content = payload.comment.body,
                                  !.comment_id = Some(payload.comment.id),
                                  !.event_type = "issue_comment"]
             IN  IF payload.pull_request.present
                 THEN [c1 EXCEPT !.pr_number = Some(payload.pull_request.number),
                                 !.event_type = "pull_request_comment",
                                 !.diff_content = diff]
                 ELSE c1
        ELSE IF payload.pull_request.present
        THEN [c0 EXCEPT !.content = <<"P","R",":"," ">> \o payload.pull_request.title
                                     \o <<"\n","\n">>
                                     \o OrEmptyText(payload.pull_request.body),
                        !.pr_number = Some(payload.pull_request.number),
                        !.event_type = "pull_request",
                        !.diff_content = diff]
        ELSE IF payload.issue.present
        THEN [c0 EXCEPT !.content = <<"I","s","s","u","e",":"," ">>
                                     \o payload.issue.title \o <<"\n","\n">>
                                     \o OrEmptyText(payload.issue.body),
                        !.issue_number = Some(payload.issue.number),
                        !.event_type = "issues"]
        ELSE c0

\* a mutant: the gate is never applied
IgnoresForMissingTrigger_never(payload, ctx) == FALSE

\* line 803: webhook_payload.comment and not should_respond(context.content)
IgnoresForMissingTrigger(payload, ctx) ==
    payload.comment.present /\ ~should_respond(ctx.content)

supported_events == {"issue_comment", "pull_request", "issues"}

-----------------------------------------------------------------------------
(* GitHub webhook: handle_github_webhook *)

Response(status, message, event) ==
    [kind |-> "json", status |-> status, message |-> message, event_type |-> event]
\* fetched is what the GET of the diff came to
NoEffects ==
    [parsed |-> FALSE, classified |-> FALSE, diffRequests |-> 0, backendCalls |-> 0,
     fetched |-> NoValue, echo |-> NoValue]

\* BaseModel.model_dump(): a dict with an entry for every field of the model;
\* file_changes is assigned nowhere and is None
model_dump(ctx) ==
    [f \in DOMAIN ctx \cup {"file_changes"} |->
        IF f = "file_changes" THEN NoValue ELSE ctx[f]]

\* the handler returns a JSONResponse
Respond(status, message, event, eff) ==
    /\ response' = Response(status, message, event)
    /\ effects' = eff
    /\ wpc' = "done"

\* lines 802-811: the trigger gate, then create_response starts the backend
GateAndCreateResponse(ctx, eff) ==
    /\ context' = ctx
    /\ IF IgnoresForMissingTrigger(request.body.payload, ctx)
       THEN Respond(200, "no_trigger", "", eff)
       ELSE /\ wpc' = "backend"
            /\ effects' = [eff EXCEPT !.backendCalls = @ + 1]
            /\ response' = response

\* lines 739-800: from the request to the first wait on the outside world
ReceiveWebhook ==
    /\ wpc = "received"
    /\ LET body == request.body
           payload == body.payload
           v == verify_github_signature(body, OrEmpty(request.signature),
                                        config.secret)
           read == [NoEffects EXCEPT !.parsed = TRUE]
       IN  IF ~config.enabled
           THEN Respond(503, "disabled", "", NoEffects) /\ context' = context
           ELSE IF config.requireSig /\ config.secret = ""
           THEN Respond(500, "no_secret", "", NoEffects) /\ context' = context
           ELSE IF config.requireSig /\ v = "TypeError"
           THEN Respond(500, "internal_error", "", NoEffects) /\ context' = context
           ELSE IF config.requireSig /\ v = "false"
           THEN Respond(401, "invalid_signature", "", NoEffects) /\ context' = context
           ELSE IF body.kind = "nonutf8"      \* body.decode raises UnicodeDecodeError
           THEN Respond(500, "internal_error", "", read) /\ context' = context
           ELSE IF body.kind = "badjson"      \* json.loads raises JSONDecodeError
           THEN Respond(400, "invalid_json", "", read) /\ context' = context
           ELSE IF body.kind = "nonobject" \/ payload.shape = "repo_nondict"
                \* line 778: payload_data.get(...).get(...) raises AttributeError
           THEN Respond(500, "internal_error", "", read) /\ context' = context
           ELSE IF request.event \notin supported_events
           THEN Respond(200, "ignored", "", read) /\ context' = context
           ELSE IF payload.shape # "valid"    \* ValidationError
           THEN Respond(400, "invalid_payload", "", read) /\ context' = context
           ELSE IF payload.pull_request.present
           THEN /\ wpc' = "diff"
                /\ effects' = [read EXCEPT !.classified = TRUE, !.diffRequests = @ + 1]
                /\ UNCHANGED <<context, response>>
           ELSE GateAndCreateResponse(process_webhook(payload, NoDiff),
                                      [read EXCEPT !.classified = TRUE])
    /\ UNCHANGED <<config, request>>
    /\ UNCHANGED exceptWebhook

\* what the GET of the diff can come to: a response or an exception
DiffOutcomes ==
    { [kind |-> "response", code |-> 200, len |-> 0],
      [kind |-> "response", code |-> 200, len |-> 500],
      [kind |-> "response", code |-> 200, len |-> max_diff_size],
      [kind |-> "response", code |-> 200, len |-> max_diff_size + 1],
      [kind |-> "response", code |-> 200, len |-> 15000],
      [kind |-> "response", code |-> 500, len |-> 0],
      [kind |-> "response", code |-> 404, len |-> 0],
      [kind |-> "exception", code |-> 0, len |-> 0] }

\* lines 515/522 and 802-811: _fetch_pr_diff returns, process_webhook returns
DiffReturns ==
    /\ wpc = "diff"
    /\ \E outcome \in DiffOutcomes :
          LET payload == request.body.payload
          IN  GateAndCreateResponse(
                  process_webhook(payload, fetch_pr_diff(payload.pull_request, outcome)),
                  [effects EXCEPT !.fetched = outcome])
    /\ UNCHANGED <<config, request>>
    /\ UNCHANGED exceptWebhook

\* a variant in which create_response marks the context it was given
BackendReturns_marks_context ==
    /\ wpc = "backend"
    /\ \E outcome \in {"exit_zero", "exit_nonzero", "spawn_error"} :
          IF outcome = "exit_zero"
          THEN Respond(200, "processed", request.event,
                       [effects EXCEPT !.echo = model_dump(context)])
          ELSE Respond(500, "internal_error", "", effects)
    /\ context' = [context EXCEPT !.action = "handled"]
    /\ UNCHANGED <<config, request>>
    /\ UNCHANGED exceptWebhook

\* a variant that reports the event type of the context
BackendReturns_context_event ==
    /\ wpc = "backend"
    /\ \E outcome \in {"exit_zero", "exit_nonzero", "spawn_error"} :
          IF outcome = "exit_zero"
          THEN Respond(200, "processed", context.event_type,
                       [effects EXCEPT !.echo = model_dump(context)])
          ELSE Respond(500, "internal_error", "", effects)
    /\ UNCHANGED <<config, request, context>>
    /\ UNCHANGED exceptWebhook

\* lines 811-835 and 617-622: execute_claude_request returns and
\* create_response returns its result, or HTTPException(500) is raised
BackendReturns ==
    /\ wpc = "backend"
    /\ \E outcome \in {"exit_zero", "exit_nonzero", "spawn_error"} :
          IF outcome = "exit_zero"
          THEN Respond(200, "processed", request.event,
                       [effects EXCEPT !.echo = model_dump(context)])
          ELSE Respond(500, "internal_error", "", effects)
    /\ UNCHANGED <<config, request, context>>
    /\ UNCHANGED exceptWebhook

\* lines 856-872 and 581-617: POST /github/analyze hands the posted context
\* to create_response, which builds the prompt and starts the backend
AnalyzeGithubContent ==
    /\ wpc = "analyze"
    /\ wpc' = "analyze_backend"
    /\ effects' = [effects EXCEPT !.backendCalls = @ + 1]
    /\ UNCHANGED <<config, request, context, response>>
    /\ UNCHANGED exceptWebhook

\* lines 617-622 and 870-880: execute_claude_request returns or raises
AnalyzeBackendReturns ==
    /\ wpc = "analyze_backend"
    /\ \E outcome \in {"exit_zero", "exit_nonzero", "spawn_error"} :
          IF outcome = "exit_zero"
          THEN Respond(200, "success", context.event_type,
                       [effects EXCEPT !.echo = model_dump(context)])
          ELSE Respond(500, "internal_error", "", effects)
    /\ UNCHANGED <<config, request, context>>
    /\ UNCHANGED exceptWebhook

\* should_respond called on its own
CallShouldRespond ==
    /\ tcontent # NoValue
    /\ tresult = NoValue
    /\ tresult' = [kind |-> "outcome", result |-> should_respond(tcontent.content)]
    /\ UNCHANGED tcontent
    /\ UNCHANGED exceptTrigger

-----------------------------------------------------------------------------
(* Requests in flight together.  Every handler is a coroutine of the one   *)
(* event loop: between two awaits it runs alone, at an await another       *)
(* request's coroutine may run.  A step below is the code between two      *)
(* awaits of one request.                                                  *)

Requests == {"r1", "r2"}
ConcMaxOutLen == 12    \* longest output of a subprocess, in bytes

\* CONFIG and the state of the global adapters after startup
Globals == [claude_cli_path |-> ClaudeCliPath, session_cache |-> <<>>]

\* f"chatcmpl-{uuid.uuid4().hex[:29]}"
CompletionIds == {"chatcmpl-1", "chatcmpl-2"}

\* the local variables of a handler that has not started a subprocess yet
Locals(kind, id) ==
    [kind |-> kind, pc |-> "start", completion_id |-> id, process |-> 0,
     buffer |-> <<>>, frames |-> <<>>]

\* a frame or a response body: every one carries the completion id
Frame(id, kind, content) == [id |-> id, kind |-> kind, content |-> content]

\* the process a new subprocess gets: subprocess k writes n bytes of value k
NewProcess(k, n) ==
    [argv0 |-> globals.claude_cli_path, output |-> [i \in 1..n |-> k],
     unread |-> [i \in 1..n |-> k]]

\* a variant in which a request uses the subprocess that is there already
ConcSpawn_pooled ==
    \E r \in Requests : \E n \in {0, ConcMaxOutLen - 1, ConcMaxOutLen} :
        /\ inflight[r].pc = "start"
        /\ IF procs = <<>>
           THEN /\ procs' = <<NewProcess(1, n)>>
                /\ inflight' = [inflight EXCEPT ![r].process = 1, ![r].pc = "run"]
           ELSE /\ procs' = procs
                /\ inflight' = [inflight EXCEPT ![r].process = 1, ![r].pc = "run"]
        /\ UNCHANGED globals
        /\ UNCHANGED exceptConcurrent

\* lines 297-301 and 1284-1288: create_subprocess_exec, once per request
ConcSpawn ==
    \E r \in Requests : \E n \in {0, ConcMaxOutLen - 1, ConcMaxOutLen} :
        /\ inflight[r].pc = "start"
        /\ procs' = Append(procs, NewProcess(Len(procs) + 1, n))
        /\ inflight' = [inflight EXCEPT ![r].process = Len(procs) + 1, ![r].pc = "run"]
        /\ UNCHANGED globals
        /\ UNCHANGED exceptConcurrent

\* lines 1296-1320: one read of the request's own process.stdout
ConcRead ==
    \E r \in Requests :
        LET me == inflight[r]
            p == me.process
        IN  /\ me.kind = "stream" /\ me.pc = "run"
            /\ procs[p].unread # <<>>
            /\ \E n \in 1..Min(ReadSize, Len(procs[p].unread)) :
                  LET buf == me.buffer \o Decode(SubSeq(procs[p].unread, 1, n))
                  IN  /\ procs' = [procs EXCEPT ![p].unread =
                                      SubSeq(procs[p].unread, n + 1, Len(procs[p].unread))]
                      /\ inflight' =
                            IF Len(buf) > FlushThreshold
                            THEN [inflight EXCEPT
                                    ![r].frames = Append(me.frames,
                                        Frame(me.completion_id, "content", buf)),
                                    ![r].buffer = <<>>]
                            ELSE [inflight EXCEPT ![r].buffer = buf]
            /\ UNCHANGED globals
            /\ UNCHANGED exceptConcurrent

\* lines 1322-1353: the end of the request's own stdout
ConcEndOfStream ==
    \E r \in Requests :
        LET me == inflight[r]
        IN  /\ me.kind = "stream" /\ me.pc = "run"
            /\ procs[me.process].unread = <<>>
            /\ inflight' = [inflight EXCEPT
                  ![r].frames = me.frames
                      \o (IF me.buffer # <<>>
                          THEN <<Frame(me.completion_id, "content", me.buffer)>>
                          ELSE <<>>)
                      \o <<Frame(me.completion_id, "stop", <<>>)>>,
                  ![r].pc = "finished"]
            /\ UNCHANGED <<globals, procs>>
            /\ UNCHANGED exceptConcurrent

\* lines 303-333 and 1240-1261: communicate() on the request's own process,
\* then the response body
ConcCommunicate ==
    \E r \in Requests :
        LET me == inflight[r]
            p == me.process
        IN  /\ me.kind = "completion" /\ me.pc = "run"
            /\ procs' = [procs EXCEPT ![p].unread = <<>>]
            /\ inflight' = [inflight EXCEPT
                  ![r].frames = <<Frame(me.completion_id, "response",
                                        Decode(procs[p].unread))>>,
                  ![r].pc = "finished"]
            /\ UNCHANGED globals
            /\ UNCHANGED exceptConcurrent

-----------------------------------------------------------------------------
(* Specifications *)

StreamIdle ==
    /\ messages = <<>> /\ spc = "idle" /\ cmd = <<>> /\ output = <<>>
    /\ unread = <<>> /\ buffer = <<>> /\ frames = <<>> /\ spawned = 0
    /\ raised = "none" /\ returncode = NoneInt /\ stderr = "none"
WebhookIdle ==
    /\ config = NoValue /\ request = NoValue /\ wpc = "idle"
    /\ context = NoValue /\ response = NoValue /\ effects = NoValue
VerifyIdle ==
    /\ vin = NoValue /\ vout = NoValue
ChatIdle ==
    /\ chatBody = NoValue /\ cpc = "idle" /\ chatPrompt = NoValue
    /\ chatCmd = <<>> /\ chatProcess = NoValue /\ chatReply = NoValue
TriggerIdle ==
    /\ tcontent = NoValue /\ tresult = NoValue
ConcurrentIdle ==
    /\ globals = Globals /\ inflight = NoValue /\ procs = <<>>
\* GitHubActionAdapter.__init__
AdapterInit ==
    /\ triggers = trigger_phrases

\* one streaming request, from the call of the generator
StreamInit ==
    /\ messages \in StreamMessages
    /\ spc = "start"
    /\ cmd = <<>> /\ output = <<>> /\ unread = <<>> /\ buffer = <<>>
    /\ frames = <<>> /\ spawned = 0 /\ raised = "none" /\ returncode = NoneInt
    /\ stderr = "none"
    /\ WebhookIdle /\ VerifyIdle /\ ChatIdle /\ TriggerIdle /\ AdapterInit
    /\ ConcurrentIdle

StreamNext ==
    \/ BuildPrompt
    \/ SpawnOk
    \/ SpawnRaises
    \/ ReadChunk
    \/ EndOfStream
    \/ ReadRaises
    \/ ProcessWait
    \/ SpawnOkStderrFull
    \/ ClientDisconnects
    \/ EndOfStreamDisconnected

SpecStream == StreamInit /\ [][StreamNext]_vars

\* the generator with subprocesses whose output takes several reads of 64 bytes
StreamLongNext ==
    \/ BuildPrompt
    \/ SpawnOkLong
    \/ SpawnRaises
    \/ ReadChunk
    \/ EndOfStream
    \/ ReadRaises
    \/ ProcessWait

SpecStreamLong == StreamInit /\ [][StreamLongNext]_vars

\* The generator under the event loop's scheduling: an await returns once what
\* it waits for has happened.  create_subprocess_exec ends one way or another,
\* read returns when bytes or the end of stdout are there, wait returns when the
\* process has exited.  The errors of the pipe and the consumer's leaving are
\* not owed to anybody.
StreamFairness ==
    /\ WF_vars(BuildPrompt)
    /\ WF_vars(SpawnOk \/ SpawnRaises \/ SpawnOkStderrFull)
    /\ WF_vars(ReadChunk)
    /\ WF_vars(EndOfStream)
    /\ WF_vars(ProcessWait)

SpecStreamLive == StreamInit /\ [][StreamNext]_vars /\ StreamFairness

\* ---- the webhook requests of the model

Secret == "s3cret"
OtherSecret == "other"
Repo == "octo/repo"
Sender == "alice"

Payload(shape, comment, pr, issue) ==
    [shape |-> shape, action |-> "created", repository |-> Repo, sender |-> Sender,
     comment |-> comment, pull_request |-> pr, issue |-> issue]

CommentBodies == { <<"@","a","i">>, <<"@","A","I">>, <<"o","k">> }
Comments == {NoComment} \cup {Comment(11, b) : b \in CommentBodies}
PullRequests ==
    {NoPullRequest} \cup
    {PullRequest(7, <<"t">>, b) : b \in {TxtNone, TxtStr(<<"/","f","i","x">>)}}
Issues == {NoIssue, Issue(3, <<"b","u","g">>, TxtStr(<<"x">>))}

ValidPayloads ==
    {Payload("valid", c, p, i) : c \in Comments, p \in PullRequests, i \in Issues}
\* JSON objects that break the schema or the log line of line 778
BrokenPayloads ==
    {Payload(sh, NoComment, NoPullRequest, NoIssue) :
        sh \in {"bad_fields", "repo_invalid", "repo_nondict"}}

Bodies ==
    {[kind |-> "object", payload |-> p] : p \in ValidPayloads \cup BrokenPayloads}
    \cup {[kind |-> k, payload |-> Payload("none", NoComment, NoPullRequest, NoIssue)] :
             k \in {"nonutf8", "badjson", "nonobject"}}

\* signature headers a request with this body may carry
WebhookSignatures(body) ==
    { HeaderAbsent,
      HeaderText(TRUE, HexDigest(Secret, body)),
      HeaderText(TRUE, HexDigest(OtherSecret, body)),
      HeaderText(FALSE, HexDigest(Secret, body)),
      HeaderText(TRUE, NonAsciiDigit(HexDigest(Secret, body))) }

Events == {"issue_comment", "pull_request", "issues", "push"}

WebhookInit ==
    /\ config \in [enabled : BOOLEAN, requireSig : BOOLEAN, secret : {"", Secret}]
    /\ \E b \in Bodies : \E sig \in WebhookSignatures(b) : \E e \in Events :
          request = [body |-> b, signature |-> sig, event |-> e]
    /\ wpc = "received"
    /\ context = NoValue /\ response = NoValue /\ effects = NoEffects
    /\ StreamIdle /\ VerifyIdle /\ ChatIdle /\ TriggerIdle /\ AdapterInit
    /\ ConcurrentIdle

WebhookNext ==
    \/ ReceiveWebhook
    \/ DiffReturns
    \/ BackendReturns

SpecWebhook == WebhookInit /\ [][WebhookNext]_vars

\* ---- verify_github_signature called on its own

\* the call and its outcome
CallVerify ==
    /\ vin # NoValue
    /\ vout = NoValue
    /\ vout' = [kind |-> "outcome",
                result |-> verify_github_signature(vin.body, vin.header, vin.secret)]
    /\ UNCHANGED vin
    /\ UNCHANGED exceptVerify

VerifyBodies ==
    {[kind |-> "object", payload |-> Payload("valid", NoComment, NoPullRequest, i)] :
        i \in Issues}

\* texts that may follow sha256=, or stand without it
SignatureTexts ==
    LET digests == {HexDigest(k, b) : k \in {Secret, OtherSecret}, b \in VerifyBodies}
    IN  digests
        \cup {UpperCased(d) : d \in digests}
        \cup {DigitFlipped(d) : d \in digests}
        \cup {Truncated(d) : d \in digests}
        \cup {NonAsciiDigit(d) : d \in digests}
        \cup {NoDigest, EmptyText}

VerifyHeaders ==
    {HeaderAbsent} \cup {HeaderText(pre, t) : pre \in BOOLEAN, t \in SignatureTexts}

VerifyInit ==
    /\ \E b \in VerifyBodies : \E h \in VerifyHeaders : \E k \in {Secret, OtherSecret} :
          vin = [kind |-> "call", body |-> b, header |-> h, secret |-> k]
    /\ vout = NoValue
    /\ StreamIdle /\ WebhookIdle /\ ChatIdle /\ TriggerIdle /\ AdapterInit
    /\ ConcurrentIdle

VerifyNext ==
    \/ CallVerify

SpecVerify == VerifyInit /\ [][VerifyNext]_vars

\* ---- POST /v1/chat/completions

Hi == <<"h","i">>
UserHi == Message("user", StrContent(Hi))
TextPart(s) == Part("dict", "text", TxtStr(s))

\* the message lists of the model's chat requests
ChatMessageLists ==
    { <<UserHi>>,
      <<Message("system", StrContent(<<"A">>)), Message("user", StrContent(<<"B">>))>>,
      <<UserHi, Message("assistant", StrContent(<<"y","o">>)),
        Message("user", StrContent(<<"a"," ","b"," ","c">>))>>,
      <<Message("tool", StrContent(<<"x">>)), UserHi>>,
      <<Message("user", ListContent(<<TextPart(<<"a">>),
                                      Part("dict", "image_url", TxtAbsent),
                                      TextPart(<<"b">>)>>))>>,
      <<Message("user", ListContent(<<TextPart(<<"a">>),
                                      Part("dict", "text", TxtAbsent),
                                      TextPart(<<"b">>)>>))>>,
      <<Message("user", ListContent(<<Part("dict", "text", TxtNone)>>))>>,
      <<>> }

\* message lists with system messages: an empty first one before one with
\* text, two with text, one after the user's message, one whose parts hold no text
SystemMessageLists ==
    { <<Message("system", StrContent(<<>>)), Message("system", StrContent(<<"B">>)),
        UserHi>>,
      <<Message("system", StrContent(<<"A">>)), Message("system", StrContent(<<"B">>)),
        UserHi>>,
      <<UserHi, Message("system", StrContent(<<"A">>))>>,
      <<Message("system", ListContent(<<Part("dict", "image_url", TxtAbsent)>>)),
        Message("system", ListContent(<<TextPart(<<"B">>)>>)), UserHi>> }

\* max_tokens, temperature (tenths) and top_p (tenths) of the model's bodies
MaxTokensFields == {FieldAbsent, FieldNull, FieldText, FieldNum(-5), FieldNum(0), FieldNum(1)}
TemperatureFields ==
    {FieldAbsent, FieldNull, FieldText, FieldNum(-1), FieldNum(0), FieldNum(20), FieldNum(21)}
TopPFields ==
    {FieldAbsent, FieldNull, FieldText, FieldNum(-1), FieldNum(0), FieldNum(10), FieldNum(11)}

\* the bodies of the model: every message list with the default fields, every
\* value of one field with the other fields at their defaults, and streaming
\* requests
ChatBodies ==
    {ChatBody(MessagesList(m), FieldAbsent, FieldAbsent, FieldAbsent, st) :
        m \in ChatMessageLists \cup SystemMessageLists, st \in BOOLEAN}
    \cup {ChatBody(MessagesList(<<UserHi>>), f, FieldAbsent, FieldAbsent, FALSE) :
            f \in MaxTokensFields}
    \cup {ChatBody(MessagesList(<<UserHi>>), FieldAbsent, f, FieldAbsent, FALSE) :
            f \in TemperatureFields}
    \cup {ChatBody(MessagesList(<<UserHi>>), FieldAbsent, FieldAbsent, f, FALSE) :
            f \in TopPFields}
    \cup {ChatBody(MessagesAbsent, FieldAbsent, FieldAbsent, FieldAbsent, st) :
            st \in BOOLEAN}
    \cup {ChatBody(MessagesList(<<UserHi>>), f, FieldAbsent, FieldAbsent, TRUE) :
            f \in {FieldAbsent, FieldNum(0)}}
    \cup {ChatBody(MessagesList(<<UserHi>>), FieldAbsent, FieldNum(21), FieldAbsent, TRUE)}

ChatInit ==
    /\ chatBody \in ChatBodies
    /\ cpc = "received"
    /\ chatPrompt = NoValue /\ chatCmd = <<>> /\ chatProcess = NoProcess
    /\ chatReply = NoValue
    /\ StreamIdle /\ WebhookIdle /\ VerifyIdle /\ TriggerIdle /\ AdapterInit
    /\ ConcurrentIdle

ChatNext ==
    \/ ReceiveChat
    \/ ExecuteSpawn
    \/ ExecuteSpawnRaises
    \/ Communicate
    \/ BuildPrompt
    \/ SpawnOk
    \/ SpawnRaises
    \/ ReadChunk
    \/ EndOfStream
    \/ ReadRaises
    \/ ProcessWait
    \/ SpawnOkStderrFull
    \/ ClientDisconnects
    \/ EndOfStreamDisconnected

SpecChat == ChatInit /\ [][ChatNext]_vars

\* ---- should_respond called on its own, and from a webhook request

\* str.upper() on one character
UpperChar(c) ==
    IF \E i \in 1..Len(LowerLetters) : LowerLetters[i] = c
    THEN UpperLetters[CHOOSE i \in 1..Len(LowerLetters) : LowerLetters[i] = c]
    ELSE c

\* each trigger phrase as it is, in upper case, with its second character in
\* upper case, without its first and without its last character
TriggerCores ==
    UNION { { t, [i \in 1..Len(t) |-> UpperChar(t[i])],
              [i \in 1..Len(t) |-> IF i = 2 THEN UpperChar(t[i]) ELSE t[i]],
              Tail(t), SubSeq(t, 1, Len(t) - 1) } : t \in trigger_phrases }
    \cup { <<>>, <<"j","u","s","t"," ","a"," ","n","o","t","e">> }

TriggerContents ==
    { pre \o core \o post :
        pre \in {<<>>, <<"H","e","y"," ">>},
        core \in TriggerCores,
        post \in {<<>>, <<" ","c","h","e","c","k"," ","t","h","i","s">>} }

TriggerInit ==
    /\ \E c \in TriggerContents : tcontent = [kind |-> "call", content |-> c]
    /\ tresult = NoValue
    /\ StreamIdle /\ WebhookIdle /\ VerifyIdle /\ ChatIdle /\ AdapterInit
    /\ ConcurrentIdle

TriggerNext ==
    \/ CallShouldRespond
    \/ ReceiveWebhook
    \/ DiffReturns
    \/ BackendReturns

TriggerSpecInit == TriggerInit \/ WebhookInit

SpecTrigger == TriggerSpecInit /\ [][TriggerNext]_vars

\* ---- one request of any kind

\* the contexts posted to /github/analyze
AnalyzeContexts ==
    { [event_type |-> e, action |-> "created", repository |-> Repo, sender |-> Sender,
       content |-> c, pr_number |-> pr, issue_number |-> NoneInt,
       comment_id |-> NoneInt, diff_content |-> NoDiff] :
        e \in {"issue_comment", "pull_request", "unknown"},
        c \in CommentBodies,
        pr \in {NoneInt, Some(7)} }

AnalyzeInit ==
    /\ context \in AnalyzeContexts
    /\ wpc = "analyze"
    /\ config = NoValue /\ request = NoValue /\ response = NoValue
    /\ effects = NoEffects
    /\ StreamIdle /\ VerifyIdle /\ ChatIdle /\ TriggerIdle /\ AdapterInit
    /\ ConcurrentIdle

ServerNext ==
    \/ ReceiveChat
    \/ ExecuteSpawn
    \/ ExecuteSpawnRaises
    \/ Communicate
    \/ BuildPrompt
    \/ SpawnOk
    \/ SpawnRaises
    \/ ReadChunk
    \/ EndOfStream
    \/ ReadRaises
    \/ ProcessWait
    \/ SpawnOkStderrFull
    \/ ClientDisconnects
    \/ EndOfStreamDisconnected
    \/ ReceiveWebhook
    \/ DiffReturns
    \/ BackendReturns
    \/ AnalyzeGithubContent
    \/ AnalyzeBackendReturns

\* ---- two requests in flight, streaming or not
ConcurrentInit ==
    /\ globals = Globals
    /\ inflight \in [Requests -> {Locals(k, id) : k \in {"stream", "completion"},
                                                 id \in CompletionIds}]
    /\ procs = <<>>
    /\ StreamIdle /\ WebhookIdle /\ VerifyIdle /\ ChatIdle /\ TriggerIdle
    /\ triggers = trigger_phrases   \* AdapterInit

ConcurrentNext ==
    \/ ConcSpawn
    \/ ConcRead
    \/ ConcEndOfStream
    \/ ConcCommunicate

SpecConcurrent == ConcurrentInit /\ [][ConcurrentNext]_vars

ServerInit == ChatInit \/ WebhookInit \/ AnalyzeInit

SpecServer == ServerInit /\ [][ServerNext]_vars

-----------------------------------------------------------------------------
(* Claims about the streaming transducer *)

\* the generator has returned or has been left by an exception
StreamEnded == spc \in {"finished", "aborted"}

\* the texts of the content chunks, in order
DeltaContents ==
    LET idx == {i \in 1..Len(frames) : frames[i].kind = "chunk" /\ frames[i].hasContent}
        F[k \in 0..Len(frames)] ==
            IF k = 0 THEN <<>>
            ELSE IF k \in idx THEN F[k - 1] \o frames[k].content ELSE F[k - 1]
    IN  F[Len(frames)]

DoneCount == Cardinality({i \in 1..Len(frames) : frames[i].kind = "done"})
StopChunks == {i \in 1..Len(frames) : frames[i].kind = "chunk" /\ frames[i].finish = "stop"}

\* C1: when the subprocess's stdout has been read to its end without an
\* exception, the content deltas concatenated in order are the decoded full
\* output, whatever the sizes of the reads were.
C1_DeltasEqualDecodedOutput ==
    (spc \in {"wait", "finished"} /\ raised = "none" /\ output # <<>>)
        => DeltaContents = Decode(output)

\* C2: at every moment the sentinel, if emitted, is the last frame, and a
\* stream that has ended, normally or not, holds exactly one sentinel.
C2_DoneOnceAndLast ==
    /\ \A i \in 1..Len(frames) : frames[i].kind = "done" => i = Len(frames)
    /\ StreamEnded => DoneCount = 1

\* C3: a stream whose generator has returned, after the normal end or after
\* the exception handler, holds exactly one chunk with finish_reason "stop",
\* and that chunk has an empty delta.
C3_OneStopChunkWithEmptyDelta ==
    spc = "finished" =>
        /\ Cardinality(StopChunks) = 1
        /\ \A i \in StopChunks : ~frames[i].hasContent

\* C4: a stream in which an exception was raised, at whatever step, ends with
\* the error content chunk followed by the sentinel, and no stream ends
\* without the sentinel as its last frame.
C4_ExceptionEndsWithErrorThenDone ==
    StreamEnded =>
        /\ frames # <<>>
        /\ frames[Len(frames)] = DoneFrame
        /\ raised # "none" =>
              /\ Len(frames) >= 2
              /\ frames[Len(frames) - 1].kind = "chunk"
              /\ frames[Len(frames) - 1].content = ErrorText

-----------------------------------------------------------------------------
(* Claims about the webhook *)

\* the header is exactly sha256= followed by the hex digest of the body under
\* the secret
IsExactSignature(header, body, secret) ==
    header = HeaderText(TRUE, HexDigest(secret, body))

SignatureVerifies == IsExactSignature(request.signature, request.body, config.secret)

C6_TrueIffExactElseFalse ==
    vout # NoValue =>
        vout.result = (IF IsExactSignature(vin.header, vin.body, vin.secret)
                       THEN "true" ELSE "false")

\* C7: the call never raises: its outcome is a boolean for every header.
C7_VerifyReturnsBoolean ==
    vout # NoValue => vout.result \in {"true", "false"}

\* the status the ordered checks of the claim give a finished request
ClaimedStatuses ==
    LET body == request.body
        payload == body.payload
    IN  IF ~config.enabled THEN {503}
        ELSE IF config.requireSig /\ config.secret = "" THEN {500}
        ELSE IF config.requireSig /\ ~SignatureVerifies THEN {401}
        ELSE IF body.kind \in {"nonutf8", "badjson"} THEN {400}
        ELSE IF request.event \notin supported_events THEN {200}
        ELSE IF body.kind = "nonobject" \/ payload.shape # "valid" THEN {400}
        ELSE IF payload.comment.present /\ ~should_respond(payload.comment.body)
        THEN {200}
        ELSE {200, 500}   \* processed, or the backend failed

\* C8: the status of the response is the one of the first failing check, in
\* the order 503, 500 (no secret), 401, 400 (not JSON), 200 (event ignored),
\* 400 (schema), 200 (no trigger), then 200 after processing or 500 after an
\* unexpected failure.
C8_StatusFollowsTheOrderedChecks ==
    wpc = "done" => response.status \in ClaimedStatuses

\* C9 as stated: once the payload is classified as one of the four event
\* shapes, content that fails should_respond means no backend run and the
\* answer 200, whatever the shape.
C9_NoTriggerNeverRunsBackend ==
    (context # NoValue /\ context.event_type # "unknown"
        /\ ~should_respond(context.content)) =>
        /\ effects.backendCalls = 0
        /\ wpc = "done" => response.status = 200

\* C9 amended: a payload with a comment whose content fails should_respond is
\* answered 200 with no backend run; a payload without a comment (pull-request
\* level, issue level) is not gated: its classification is followed by one
\* backend run whatever its content.
C9_OnlyCommentsAreGated ==
    /\ (context # NoValue /\ request.body.payload.comment.present
            /\ ~should_respond(context.content)) =>
          /\ effects.backendCalls = 0
          /\ wpc = "done"
          /\ response = Response(200, "no_trigger", "")
    /\ (context # NoValue /\ ~request.body.payload.comment.present) =>
          effects.backendCalls = 1

\* C9 witness: a comment on a pull request without a trigger phrase has been
\* acknowledged after the diff fetch, with no backend run.
C9_Witness ==
    /\ wpc = "done" /\ context # NoValue
    /\ context.event_type = "pull_request_comment"
    /\ ~should_respond(context.content)
    /\ effects.diffRequests = 1 /\ effects.backendCalls = 0
    /\ response.status = 200

\* the classification the precedence rules of the claim give a payload
ClaimedClassification(p) ==
    IF p.comment.present /\ p.pull_request.present
    THEN [event_type |-> "pull_request_comment", content |-> p.comment.body,
          pr_number |-> Some(p.pull_request.number), issue_number |-> NoneInt,
          comment_id |-> Some(p.comment.id)]
    ELSE IF p.comment.present
    THEN [event_type |-> "issue_comment", content |-> p.comment.body,
          pr_number |-> NoneInt, issue_number |-> NoneInt,
          comment_id |-> Some(p.comment.id)]
    ELSE IF p.pull_request.present
    THEN [event_type |-> "pull_request",
          content |-> <<"P","R",":"," ">> \o p.pull_request.title \o <<"\n","\n">>
                      \o (IF p.pull_request.body = TxtNone THEN <<>>
                          ELSE p.pull_request.body.s),
          pr_number |-> Some(p.pull_request.number), issue_number |-> NoneInt,
          comment_id |-> NoneInt]
    ELSE IF p.issue.present
    THEN [event_type |-> "issues",
          content |-> <<"I","s","s","u","e",":"," ">> \o p.issue.title
                      \o <<"\n","\n">>
                      \o (IF p.issue.body = TxtNone THEN <<>> ELSE p.issue.body.s),
          pr_number |-> NoneInt, issue_number |-> Some(p.issue.number),
          comment_id |-> NoneInt]
    ELSE [event_type |-> "unknown", content |-> <<>>, pr_number |-> NoneInt,
          issue_number |-> NoneInt, comment_id |-> NoneInt]

\* C10: the context process_webhook returns has the event type, content,
\* pr_number, issue_number and comment_id that the first matching rule of
\* (comment and pull_request, comment, pull_request, issue, none) gives, the
\* identifiers of the other rules stay absent, and the diff is attached
\* exactly when the payload has a pull_request.
C10_ClassificationByFieldPresence ==
    context # NoValue =>
        LET p == request.body.payload
            c == ClaimedClassification(p)
        IN  /\ context.event_type = c.event_type
            /\ context.content = c.content
            /\ context.pr_number = c.pr_number
            /\ context.issue_number = c.issue_number
            /\ context.comment_id = c.comment_id
            /\ (context.diff_content # NoDiff) = p.pull_request.present

\* C10 witness: a payload with comment, pull_request and issue has been
\* classified pull_request_comment.
C10_Witness ==
    /\ context # NoValue
    /\ request.body.payload.comment.present
    /\ request.body.payload.pull_request.present
    /\ request.body.payload.issue.present
    /\ context.event_type = "pull_request_comment"
    /\ context.issue_number = NoneInt

\* the event types the claims name as supported
ClaimedEvents == {"issue_comment", "pull_request", "issues"}

\* C13: with the integration enabled, a request whose event header is not
\* issue_comment, pull_request or issues is answered 200 "ignored" and runs no
\* backend, whatever its body and its signature header.
C13_UnsupportedEventIsIgnored ==
    (request.event \notin ClaimedEvents /\ config.enabled) =>
        /\ effects.backendCalls = 0
        /\ wpc = "done" => response = Response(200, "ignored", "")

ReferenceTriggers ==
    { <<"@","c","l","a","u","d","e">>, <<"@","a","i">>,
      <<"/","r","e","v","i","e","w">>, <<"/","a","n","a","l","y","z","e">>,
      <<"/","h","e","l","p">>, <<"/","f","i","x">> }

\* the phrase occurs in the content, letters compared without regard to case
OccursIgnoringCase(content, phrase) ==
    \E k \in 0..(Len(content) - Len(phrase)) :
        \A j \in 1..Len(phrase) :
            content[k + j] = phrase[j] \/ content[k + j] = UpperChar(phrase[j])

HasTrigger(content) == \E t \in ReferenceTriggers : OccursIgnoringCase(content, t)

\* C16: should_respond returns true exactly for a content in which one of
\* @claude, @ai, /review, /analyze, /help, /fix occurs in any mix of upper and
\* lower case, when called on its own and when it gates a webhook comment;
\* and the adapter's trigger list is that list in every state of a request.
C16_TrueIffTriggerIgnoringCase ==
    /\ triggers = ReferenceTriggers
    /\ tresult # NoValue => (tresult.result = HasTrigger(tcontent.content))
    /\ (wpc = "done" /\ context # NoValue /\ request.body.payload.comment.present) =>
          ((response.message = "no_trigger") = ~HasTrigger(context.content))

\* C16 witness: the call with "Hey @CLAUDE check this" has returned true.
C16_Witness ==
    /\ tresult # NoValue
    /\ tresult.result
    /\ tcontent.content = <<"H","e","y"," ","@","C","L","A","U","D","E",
                            " ","c","h","e","c","k"," ","t","h","i","s">>

\* C17: after a GET answered 200, the diff of the context is the first
\* 10,000 characters of the body followed by the truncation notice when the
\* body has more than 10,000 characters, and the whole body without the
\* notice when it has 10,000 characters or fewer.
C17_DiffCutAtTenThousand ==
    (effects.fetched # NoValue /\ effects.fetched.kind = "response"
        /\ effects.fetched.code = 200) =>
        LET d == context.diff_content
            n == effects.fetched.len
        IN  /\ d.kind = "diff"
            /\ n > 10000 => (d.len = 10000 /\ d.truncated)
            /\ n <= 10000 => (d.len = n /\ ~d.truncated)

\* C17 witness: a body of 15,000 characters has been cut to 10,000 and the
\* notice, and the request has been answered.
C17_Witness ==
    /\ wpc = "done"
    /\ effects.fetched # NoValue
    /\ effects.fetched.len = 15000
    /\ context.diff_content.len = 10000
    /\ context.diff_content.truncated

-----------------------------------------------------------------------------
(* Claims about the server as a whole *)

\* the subprocesses created so far for the request, whichever handler runs it
SubprocessesCreated ==
    spawned + (IF cpc = "idle" THEN 0 ELSE chatProcess.spawned)
            + (IF wpc = "idle" THEN 0 ELSE effects.backendCalls)

\* C11: a request creates at most one backend subprocess; an answer built
\* from backend output (a completion, a stream read to its end, a processed
\* webhook, a successful /github/analyze) comes from exactly one invocation;
\* and a failed invocation ends the request: the backend is not started again.
C11_AtMostOneBackendInvocation ==
    /\ SubprocessesCreated <= 1
    /\ cpc # "idle" =>
          /\ chatProcess.calls <= 1
          /\ (cpc = "done" /\ chatReply.kind = "completion") => chatProcess.calls = 1
          /\ chatProcess.returncode = Some(1) =>
                (cpc \in {"communicate", "done"} /\ chatProcess.spawned = 1)
    /\ (spc \in {"wait", "finished"} /\ raised = "none") => spawned = 1
    /\ raised = "spawn" => (spc = "finished" /\ spawned = 0)
    /\ raised = "read" => (spc = "finished" /\ spawned = 1)
    /\ wpc = "done" =>
          /\ response.message \in {"processed", "success"} => effects.backendCalls = 1
          /\ response.status = 500 => effects.backendCalls <= 1
    /\ wpc \in {"backend", "analyze_backend"} => effects.backendCalls = 1

\* C11 witness: a non-streaming completion whose subprocess exited with code 1
\* has been answered 500 after one invocation.
C11_Witness ==
    /\ cpc = "done"
    /\ chatProcess.returncode = Some(1)
    /\ chatProcess.calls = 1
    /\ chatReply.status = 500

-----------------------------------------------------------------------------
(* Claims about POST /v1/chat/completions *)

\* the stream is a normal completion: no error chunk, and the chunk with
\* finish_reason "stop" followed by the sentinel at its end
NormalStream ==
    /\ raised = "none"
    /\ Len(frames) >= 2
    /\ frames[Len(frames) - 1] = TerminalChunk
    /\ frames[Len(frames)] = DoneFrame

\* C12: a valid request whose backend subprocess exits with a non-zero code
\* is answered with status 500, with stream false and with stream true, and
\* what is returned is never a normal completion: a choice, or a chunk
\* sequence, ending in finish_reason "stop" without an error.
C12_FailedBackendIsAnError ==
    /\ (cpc = "done" /\ chatProcess.returncode = Some(1)) =>
          (chatReply.status = 500 /\ chatReply.kind = "error")
    /\ (cpc = "streaming" /\ returncode = Some(1)) =>
          (chatReply.status = 500 /\ ~NormalStream)

\* the capitalised role name of the claim
ClaimedRoleName(role) ==
    CASE role = "system" -> <<"S","y","s","t","e","m">>
      [] role = "user" -> <<"U","s","e","r">>
      [] role = "assistant" -> <<"A","s","s","i","s","t","a","n","t">>
      [] OTHER -> <<>>

\* C15: for a message list that validation has accepted and whose contents
\* could be flattened, prompt_parts has exactly one entry per message, in the
\* order of the messages, each "<Role>: <flattened text>", and the prompt is
\* the entries joined by a blank line: no message is dropped or reordered.
C15_OneEntryPerMessage ==
    (cpc # "idle" /\ chatPrompt # NoValue /\ chatPrompt.ok) =>
        LET msgs == chatBody.messages.list
        IN  /\ Len(chatPrompt.parts) = Len(msgs)
            /\ \A i \in 1..Len(msgs) :
                  chatPrompt.parts[i] =
                      ClaimedRoleName(msgs[i].role) \o <<":", " ">>
                          \o chatPrompt.flat[i].text
            /\ chatPrompt.text = Join(chatPrompt.parts, <<"\n", "\n">>)

\* the number of words of a text: the places where a run of characters other
\* than white space ends
ClaimedWordCount(text) ==
    Cardinality({i \in 1..Len(text) :
                    /\ text[i] \notin {" ", "\n", "\t"}
                    /\ (i = Len(text) \/ text[i + 1] \in {" ", "\n", "\t"})})

\* k is an integer nearest to words * 1.3 (either neighbour at a tie)
IsRounded(words, k) == 10 * k - 5 <= 13 * words /\ 13 * words <= 10 * k + 5

\* k is words * 1.3 with its fraction cut off
IsTruncated(words, k) == 10 * k <= 13 * words /\ 13 * words < 10 * k + 10

\* C18 as stated: in a non-streaming completion prompt_tokens is
\* round(wordCount(prompt) * 1.3) and completion_tokens is
\* round(wordCount(responseText) * 1.3).
C18_UsageIsRounded ==
    (cpc = "done" /\ chatReply.kind = "completion") =>
        /\ IsRounded(ClaimedWordCount(chatPrompt.text), chatReply.usage.prompt_tokens)
        /\ IsRounded(ClaimedWordCount(chatReply.content),
                     chatReply.usage.completion_tokens)

\* C18 amended: in a non-streaming completion prompt_tokens is
\* wordCount(prompt) * 1.3 with its fraction cut off (the floor, not the
\* nearest integer), and completion_tokens is the same function of the
\* response text.
C18_UsageIsTruncated ==
    (cpc = "done" /\ chatReply.kind = "completion") =>
        /\ IsTruncated(ClaimedWordCount(chatPrompt.text), chatReply.usage.prompt_tokens)
        /\ IsTruncated(ClaimedWordCount(chatReply.content),
                       chatReply.usage.completion_tokens)

\* C18 witness: a completion for the prompt "User: hi" (two words, 2.6) with a
\* response of two words reports 2 prompt tokens and 2 completion tokens.
C18_Witness ==
    /\ cpc = "done" /\ chatReply.kind = "completion"
    /\ chatPrompt.text = <<"U","s","e","r",":"," ","h","i">>
    /\ chatReply.content = <<"w"," ","w">>
    /\ chatReply.usage.prompt_tokens = 2
    /\ chatReply.usage.completion_tokens = 2

\* the body satisfies the constraints the claim names: messages present,
\* temperature in [0, 2], top_p in [0, 1] (both kept in tenths), max_tokens a
\* positive integer; a field left out or null takes no part
SatisfiesClaimedSchema(body) ==
    /\ body.messages.present
    /\ body.temperature.tag \in {"absent", "null"}
          \/ (body.temperature.tag = "num" /\ body.temperature.v \in 0..20)
    /\ body.top_p.tag \in {"absent", "null"}
          \/ (body.top_p.tag = "num" /\ body.top_p.v \in 0..10)
    /\ body.max_tokens.tag \in {"absent", "null"}
          \/ (body.max_tokens.tag = "num" /\ body.max_tokens.v > 0)

\* C19: a body that breaks one of these constraints is answered 422 with a
\* detail holding error, details and received, and no subprocess is created
\* for it, with stream false and with stream true: whatever reaches the
\* backend satisfies the constraints.
C19_SchemaViolationsAre422 ==
    (cpc # "idle" /\ ~SatisfiesClaimedSchema(chatBody)) =>
        /\ chatProcess.calls = 0
        /\ spawned = 0 /\ spc = "idle"
        /\ cpc \in {"received", "done"}
        /\ cpc = "done" =>
              /\ chatReply.status = 422
              /\ chatReply.detail.kind = "object"
              /\ chatReply.detail.error = "Validation failed"
              /\ chatReply.detail.details # {}
              /\ chatReply.detail.received = chatBody

\* the flattened text of the claim: a string verbatim; of a list, the texts of
\* the parts of type "text" that have a text, joined by one space
ClaimedFlatten(content) ==
    IF content.kind = "str" THEN content.text
    ELSE LET withText == SelectSeq(content.parts,
                                   LAMBDA part : part.type = "text" /\ part.text.tag = "str")
         IN  Join([i \in 1..Len(withText) |-> withText[i].text.s], <<" ">>)

\* C20: for every message of a request whose prompt is built, content_text
\* returns, without raising, a string content verbatim and, for a list
\* content, the texts of its text parts joined by one space; parts of another
\* type and text parts whose text is missing or null add nothing, no
\* separator either.
C20_FlattenJoinsTextParts ==
    (cpc # "idle" /\ chatPrompt # NoValue) =>
        \A i \in 1..Len(chatBody.messages.list) :
            /\ chatPrompt.flat[i].ok
            /\ chatPrompt.flat[i].text = ClaimedFlatten(chatBody.messages.list[i].content)

-----------------------------------------------------------------------------
(* Claims about the argument vector of the backend *)

NoEmptyArgument(argv) == \A i \in 1..Len(argv) : argv[i] # <<>>

\* C21: every argument vector handed to create_subprocess_exec, by
\* execute_claude_request and by the streaming generator alike, holds no
\* empty string.
C21_NoEmptyArgument ==
    /\ NoEmptyArgument(chatCmd)
    /\ NoEmptyArgument(cmd)

\* the values that follow a --system-prompt flag in an argument vector
SystemInstructions(argv) ==
    {argv[i + 1] : i \in {j \in 1..(Len(argv) - 1) : argv[j] = <<"--system-prompt">>}}

\* what the claim says is passed: the text of the first system message of the
\* list, when there is one and its text is not empty
ClaimedInstructions(msgs) ==
    LET idx == {i \in 1..Len(msgs) : msgs[i].role = "system"}
    IN  IF idx = {} THEN {}
        ELSE LET first == CHOOSE i \in idx : \A j \in idx : i <= j
             IN  {content_text(msgs[first]).text} \ {<<>>}

\* C22: the system instruction handed to the backend is the flattened text of
\* the first system message and no other; none is handed over when the list
\* has no system message or the first one's text is empty; the streaming and
\* the non-streaming path hand over the same instruction for the same list.
C22_FirstSystemMessageOnly ==
    /\ chatCmd # <<>> =>
          SystemInstructions(chatCmd) = ClaimedInstructions(chatBody.messages.list)
    /\ cmd # <<>> => SystemInstructions(cmd) = ClaimedInstructions(messages)

\* a request is streamed whose first system message is empty and whose second
\* has a text, and the subprocess was started without an instruction
C22_Witness ==
    /\ cpc = "streaming" /\ spawned = 1
    /\ Len(messages) >= 2
    /\ messages[1].role = "system" /\ content_text(messages[1]).text = <<>>
    /\ messages[2].role = "system" /\ content_text(messages[2]).text # <<>>
    /\ SystemInstructions(cmd) = {}

-----------------------------------------------------------------------------
(* Claims about the read loop of the generator *)

\* a step of the loop in which read(64) returned bytes
ReadReturnedBytes == spc = "read" /\ spc' = "read" /\ unread' # unread

\* the bytes that read returned in that step
BytesRead == SubSeq(unread, 1, Len(unread) - Len(unread'))

\* C23: after a read is decoded and appended, a buffer of more than ten
\* characters is emitted whole as one content chunk with finish_reason null
\* and emptied; a buffer of at most ten characters is kept and nothing is
\* emitted.  So the buffer holds at most ten characters whenever a read is
\* awaited, and it changes only by appending or by being emptied in a flush.
C23_BufferDiscipline ==
    /\ [](spc = "read" => Len(buffer) <= 10)
    /\ [][ReadReturnedBytes =>
            LET buf == buffer \o Decode(BytesRead)
            IN  IF Len(buf) > 10
                THEN /\ frames' = Append(frames, ContentChunk(buf, "null"))
                     /\ buffer' = <<>>
                ELSE /\ frames' = frames
                     /\ buffer' = buf]_vars
    /\ [][\/ buffer' = <<>>
          \/ /\ Len(buffer') >= Len(buffer)
             /\ SubSeq(buffer', 1, Len(buffer)) = buffer]_vars

\* a chunk was flushed inside the loop and a later read left text in the buffer
C23_Witness ==
    /\ spc = "read"
    /\ Len(frames) = 1 /\ frames[1].finish = "null" /\ Len(frames[1].content) > 10
    /\ buffer # <<>>

\* C24: a generator that has started its subprocess eventually sees the end
\* of stdout and hands over the [DONE] sentinel, unless its consumer goes
\* away; it is never left waiting for a subprocess that is blocked writing to
\* its stderr pipe.
C24_StreamReachesDone ==
    (spc = "read") ~> (DoneCount = 1 \/ spc = "cancelled")

-----------------------------------------------------------------------------
(* Claims about requests in flight together *)

RECURSIVE FrameText(_)
\* the contents of a sequence of frames, concatenated
FrameText(fs) == IF fs = <<>> THEN <<>> ELSE Head(fs).content \o FrameText(Tail(fs))

\* the requests that have started their subprocess
Started == {r \in Requests : inflight[r].pc # "start"}

\* C25: whatever the interleaving, each request that needs the backend has a
\* subprocess of its own; its frames or its response carry its own id and
\* text from its own subprocess only; a step of one request changes neither
\* the local state nor the subprocess of another; and the shared
\* configuration, adapter state and trigger list are never written.
C25_RequestsAreIsolated ==
    /\ [](/\ Len(procs) = Cardinality(Started)
          /\ \A r \in Started :
                LET me == inflight[r]
                IN  /\ me.process \in 1..Len(procs)
                    /\ \A q \in Started \ {r} : inflight[q].process # me.process
                    /\ \A i \in 1..Len(me.frames) :
                          /\ me.frames[i].id = me.completion_id
                          /\ \A j \in 1..Len(me.frames[i].content) :
                                me.frames[i].content[j] = me.process
                    /\ me.pc = "finished" =>
                          FrameText(me.frames) = Decode(procs[me.process].output))
    /\ [][\A r \in Requests : inflight'[r] # inflight[r] =>
              \A q \in Requests \ {r} :
                  /\ inflight'[q] = inflight[q]
                  /\ q \in Started => procs'[inflight[q].process] = procs[inflight[q].process]]_vars
    /\ [][globals' = globals /\ triggers' = triggers]_vars

\* two streams are in the middle of their output at the same time, each with
\* a chunk sent and text in its buffer
C25_Witness ==
    /\ inflight # NoValue
    /\ \A r \in Requests :
          /\ inflight[r].kind = "stream" /\ inflight[r].pc = "run"
          /\ Len(inflight[r].frames) = 1 /\ inflight[r].buffer # <<>>

-----------------------------------------------------------------------------
(* Claims about the consumer's disconnect *)

IsErrorChunk(f) == f.kind = "chunk" /\ f.hasContent /\ f.finish = "stop"

\* C26: when the consumer goes away while the stream is in progress, the
\* generator stops there: the step of the disconnect reads nothing and ends
\* the generator, no step follows it, and no error chunk is ever part of a
\* stream that was ended by a disconnect.
C26_DisconnectStopsTheStream ==
    /\ [][(raised' = "cancelled" /\ raised # "cancelled") =>
            /\ spc' = "cancelled"
            /\ unread' = unread
            /\ Len(frames') >= Len(frames)
            /\ SubSeq(frames', 1, Len(frames)) = frames]_vars
    /\ [][raised = "cancelled" => UNCHANGED <<frames, unread, spc, raised, buffer>>]_vars
    /\ [](raised = "cancelled" => \A i \in 1..Len(frames) : ~IsErrorChunk(frames[i]))

\* the consumer left after a chunk of the loop, with output still unread
C26_Witness ==
    /\ spc = "cancelled" /\ raised = "cancelled"
    /\ frames # <<>> /\ unread # <<>>
    /\ DoneCount = 0

-----------------------------------------------------------------------------
(* Claims about the context after process_webhook *)

\* C27: once the handler holds the context, the trigger check,
\* create_response and the building of the HTTP response change none of its
\* fields, and the context that create_response echoes in its result equals
\* the context it was given, on the webhook and on /github/analyze.
C27_ContextIsNotChanged ==
    /\ [][context # NoValue => context' = context]_vars
    /\ [](effects # NoValue =>
            (effects.echo # NoValue =>
                \A f \in DOMAIN context : effects.echo[f] = context[f]))

\* create_response has returned for a webhook whose context holds a diff
C27_Witness ==
    /\ wpc = "done" /\ request # NoValue /\ context # NoValue
    /\ response = Response(200, "processed", request.event)
    /\ effects.echo # NoValue
    /\ context.diff_content # NoDiff
    /\ context.comment_id # NoneInt

-----------------------------------------------------------------------------
(* Claims about the usage block *)

\* C28: in every non-streaming completion total_tokens is the sum of
\* prompt_tokens and completion_tokens.
C28_TotalIsTheSum ==
    (cpc = "done" /\ chatReply.kind = "completion") =>
        chatReply.usage.total_tokens =
            chatReply.usage.prompt_tokens + chatReply.usage.completion_tokens

-----------------------------------------------------------------------------
(* Claims about the size of the chunks *)

IsContentChunk(f) == f.kind = "chunk" /\ f.hasContent

\* the step that follows the end of stdout
LoopEnds == spc = "read" /\ spc' = "wait"

\* C29: no content chunk is empty; a chunk emitted inside the read loop
\* holds 11 to 74 characters; the chunk of the final flush holds 1 to 10
\* characters; when the subprocess writes nothing, the stream holds no
\* content chunk, only the terminal chunk and the sentinel.
C29_ChunkSizes ==
    /\ [](\A i \in 1..Len(frames) :
              IsContentChunk(frames[i]) => Len(frames[i].content) >= 1)
    /\ [][(ReadReturnedBytes /\ frames' # frames) =>
            /\ Len(frames') = Len(frames) + 1
            /\ IsContentChunk(frames'[Len(frames')])
            /\ Len(frames'[Len(frames')].content) \in 11..74]_vars
    /\ [][LoopEnds =>
            \A i \in (Len(frames) + 1)..Len(frames') :
                IsContentChunk(frames'[i]) => Len(frames'[i].content) \in 1..10]_vars
    /\ []((spc \in {"wait", "finished"} /\ raised = "none" /\ output = <<>>) =>
              frames = <<TerminalChunk, DoneFrame>>)

\* a stream ended whose loop emitted a chunk of 74 characters, the buffer's
\* ten and a read's 64, and whose final flush emitted what was left
C29_Witness ==
    /\ spc = "finished" /\ raised = "none"
    /\ \E i \in 1..Len(frames) :
          IsContentChunk(frames[i]) /\ Len(frames[i].content) = ReadSize + FlushThreshold
    /\ \E i \in 1..Len(frames) :
          IsContentChunk(frames[i]) /\ Len(frames[i].content) <= FlushThreshold

-----------------------------------------------------------------------------
(* Claims about the webhook's success response *)

\* the handler has answered "Webhook processed successfully"
ProcessedSuccessfully ==
    wpc = "done" /\ response # NoValue /\ response.message = "processed"

\* C30: the event_type of the webhook's success response is the value of the
\* X-GitHub-Event header, so one of issue_comment, pull_request and issues,
\* never pull_request_comment or unknown; it is not the event type of the
\* context, from which it can differ.
C30_EventTypeIsTheHeader ==
    ProcessedSuccessfully =>
        /\ response.event_type = request.event
        /\ response.event_type \in {"issue_comment", "pull_request", "issues"}

\* a triggered comment on a pull request is reported as issue_comment while
\* its context says pull_request_comment
C30_Witness ==
    /\ ProcessedSuccessfully
    /\ request.event = "issue_comment"
    /\ response.event_type = "issue_comment"
    /\ context.event_type = "pull_request_comment"
=============================================================================
